---------------------------- MODULE Spec2Model ----------------------------
(***************************************************************************)
(* A model of tracker.py: the price normaliser clean_price, the            *)
(* structured-data extractor get_smart_price, the resolver get_price with  *)
(* its three strategies, and the catalog run of main.                      *)
(*                                                                         *)
(* Python values are tagged records: None is [t |-> "None"], a str is      *)
(* [t |-> "str", v |-> <<characters>>] (a sequence of one-character        *)
(* strings), an int is [t |-> "int", n |-> n], and a missing spreadsheet   *)
(* cell (pandas NaN, a float) is [t |-> "float"].  A JSON object is        *)
(* [t |-> "dict", d |-> record], a JSON array [t |-> "list", l |-> seq].   *)
(***************************************************************************)
EXTENDS Integers, Sequences, FiniteSets, TLC

\* ------------------------------------------------------------------ values

None_ == [t |-> "None"]
NaN == [t |-> "float"]
Str(s) == [t |-> "str", v |-> s]
Num(n) == [t |-> "int", n |-> n]
Dict(r) == [t |-> "dict", d |-> r]
List(s) == [t |-> "list", l |-> s]

IsStr(x) == x.t = "str"

\* `if x:` / `if not x:` for the values the code tests: None and "" are falsy.
Truthy(x) == IsStr(x) /\ x.v # <<>>

\* The decimal digits str.isdecimal() knows, a script to a row, each in the
\* order 0..9: the characters float() reads and \d matches.  (The rows are the
\* scripts whose digits a string of this notation can hold.)
DecimalScripts ==
  << <<"0", "1", "2", "3", "4", "5", "6", "7", "8", "9">>,
     <<"۰", "۱", "۲", "۳", "۴", "۵", "۶", "۷", "۸", "۹">>,
     <<"߀", "߁", "߂", "߃", "߄", "߅", "߆", "߇", "߈", "߉">>,
     <<"০", "১", "২", "৩", "৪", "৫", "৬", "৭", "৮", "৯">>,
     <<"૦", "૧", "૨", "૩", "૪", "૫", "૬", "૭", "૮", "૯">>,
     <<"௦", "௧", "௨", "௩", "௪", "௫", "௬", "௭", "௮", "௯">>,
     <<"೦", "೧", "೨", "೩", "೪", "೫", "೬", "೭", "೮", "೯">>,
     <<"෦", "෧", "෨", "෩", "෪", "෫", "෬", "෭", "෮", "෯">>,
     <<"໐", "໑", "໒", "໓", "໔", "໕", "໖", "໗", "໘", "໙">>,
     <<"႐", "႑", "႒", "႓", "႔", "႕", "႖", "႗", "႘", "႙">>,
     <<"០", "១", "២", "៣", "៤", "៥", "៦", "៧", "៨", "៩">>,
     <<"᧐", "᧑", "᧒", "᧓", "᧔", "᧕", "᧖", "᧗", "᧘", "᧙">>,
     <<"᪀", "᪁", "᪂", "᪃", "᪄", "᪅", "᪆", "᪇", "᪈", "᪉">>,
     <<"᪐", "᪑", "᪒", "᪓", "᪔", "᪕", "᪖", "᪗", "᪘", "᪙">>,
     <<"᮰", "᮱", "᮲", "᮳", "᮴", "᮵", "᮶", "᮷", "᮸", "᮹">>,
     <<"꣐", "꣑", "꣒", "꣓", "꣔", "꣕", "꣖", "꣗", "꣘", "꣙">>,
     <<"꧐", "꧑", "꧒", "꧓", "꧔", "꧕", "꧖", "꧗", "꧘", "꧙">>,
     <<"꧰", "꧱", "꧲", "꧳", "꧴", "꧵", "꧶", "꧷", "꧸", "꧹">>,
     <<"꯰", "꯱", "꯲", "꯳", "꯴", "꯵", "꯶", "꯷", "꯸", "꯹">> >>

AsciiDigits == {DecimalScripts[1][i] : i \in 1..10}
DecimalDigits == UNION {{DecimalScripts[s][i] : i \in 1..10} : s \in DOMAIN DecimalScripts}

\* The characters str.isdigit() accepts beyond the decimal digits: superscripts,
\* subscripts, circled and dotted digits (again those a string here can
\* hold).  float() rejects them.
OtherDigits ==
  { "²", "³", "¹", "᧚", "₀", "₁", "₂", "₃", "₄", "₅", "₆", "₇", "₈",
    "₉", "⒈", "⒉", "⒊", "⒋", "⒌", "⒍", "⒎", "⒏", "⒐", "⓪", "⓵", "⓶",
    "⓷", "⓸", "⓹", "⓺", "⓻", "⓼", "⓽", "⓿", "➀", "➁", "➂", "➃", "➄",
    "➅", "➆", "➇", "➈", "➊", "➋", "➌", "➍", "➎", "➏", "➐", "➑", "➒" }

\* The characters str.isspace() knows: str.strip() strips them and \s matches
\* them (tab, line feed, vertical tab, form feed, carriage return, the four
\* separators U+001C..U+001F, space, U+0085, no-break space, U+1680).  The
\* spaces U+2000..U+200A, U+2028, U+2029, U+202F, U+205F and U+3000 are of the
\* class too; a string here cannot hold them.
Whitespace ==
  { "\t", "\n", "", "\f", "\r", "", "", "", "", " ", "", " ", " " }

\* c.isdigit()
isdigit(c) == c \in DecimalDigits \cup OtherDigits

\* The value of each decimal digit.
DigitValue ==
  [c \in DecimalDigits |->
     CHOOSE d \in 0..9 : \E s \in DOMAIN DecimalScripts : DecimalScripts[s][d + 1] = c]
DigitVal(c) == DigitValue[c]

DigitChar(d) == DecimalScripts[1][d + 1]

\* c.isdigit() or c == '.'
Kept(c) == isdigit(c) \/ c = "."

\* "".join([c for c in s if c.isdigit() or c == '.'])
Filter(s) == SelectSeq(s, Kept)

RECURSIVE DigitsOf(_)
\* The decimal digits of n, without leading zeros ("0" for 0).
DigitsOf(n) == IF n < 10 THEN <<DigitChar(n)>> ELSE DigitsOf(n \div 10) \o <<DigitChar(n % 10)>>

Dots(s) == {i \in 1..Len(s) : s[i] = "."}

\* float(clean) for a string of digit characters and dots: it parses exactly
\* when every digit is a decimal digit, there is at least one, and at most one
\* dot.
FloatParses(clean) ==
  /\ \A i \in 1..Len(clean) : clean[i] \in DecimalDigits \cup {"."}
  /\ \E i \in 1..Len(clean) : clean[i] \in DecimalDigits
  /\ Cardinality(Dots(clean)) <= 1

(***************************************************************************)
(* float() gives the IEEE double nearest the decimal read, and the format  *)
(* .2f the decimal of two places nearest that double, both rounding a tie  *)
(* to even.  The integers this takes are beyond the machine word, so a     *)
(* natural number is held as its decimal digits, most significant first,   *)
(* without leading zeros: <<>> is 0.                                       *)
(***************************************************************************)

\* Without the leading zeros.
BigNorm(a) ==
  LET nz == {i \in 1..Len(a) : a[i] # 0}
  IN IF nz = {} THEN <<>> ELSE SubSeq(a, CHOOSE i \in nz : \A j \in nz : i <= j, Len(a))

\* a < b
BigLess(a, b) ==
  \/ Len(a) < Len(b)
  \/ /\ Len(a) = Len(b)
     /\ \E i \in 1..Len(a) : a[i] < b[i] /\ \A j \in 1..(i - 1) : a[j] = b[j]

\* 2 * a + bit: a digit of 5 or more carries one into the digit before it.
BigTwicePlus(a, bit) ==
  LET n == Len(a)
      low == [i \in 1..n |->
                (2 * a[i] + (IF i = n THEN bit ELSE IF a[i + 1] >= 5 THEN 1 ELSE 0)) % 10]
  IN IF n = 0 THEN (IF bit = 0 THEN <<>> ELSE <<bit>>)
     ELSE (IF a[1] >= 5 THEN <<1>> ELSE <<>>) \o low

BigTwice(a) == BigTwicePlus(a, 0)

\* a \div 2: an odd digit hands ten to the digit after it.
BigHalf(a) ==
  BigNorm([i \in 1..Len(a) |-> (a[i] + (IF i > 1 /\ a[i - 1] % 2 = 1 THEN 10 ELSE 0)) \div 2])

\* a % 2
BigBit(a) == IF a = <<>> THEN 0 ELSE a[Len(a)] % 2

\* a - b, for a >= b: a digit borrows when what follows it in a is less than
\* what follows it in b.
BigSub(a, b) ==
  LET n == Len(a)
      bb == [i \in 1..n |-> IF i > n - Len(b) THEN b[i - (n - Len(b))] ELSE 0]
      borrow(i) == \E j \in (i + 1)..n : a[j] < bb[j] /\ \A l \in (i + 1)..(j - 1) : a[l] = bb[l]
  IN BigNorm([i \in 1..n |-> (a[i] - bb[i] - (IF borrow(i) THEN 1 ELSE 0) + 10) % 10])

\* a + 1: the digits with nothing but nines after them move on.
BigSucc(a) ==
  LET n == Len(a)
      moves(i) == \A j \in (i + 1)..n : a[j] = 9
      low == [i \in 1..n |-> IF moves(i) THEN (a[i] + 1) % 10 ELSE a[i]]
  IN (IF \A j \in 1..n : a[j] = 9 THEN <<1>> ELSE <<>>) \o low

RECURSIVE BigTimesPow2(_, _)
\* a * 2^n
BigTimesPow2(a, n) ==
  IF a = <<>> \/ n = 0 THEN a
  ELSE IF n = 1 THEN BigTwice(a)
  ELSE BigTimesPow2(BigTimesPow2(a, n \div 2), n - n \div 2)

\* a * 10^n
BigTimesPow10(a, n) == IF a = <<>> THEN <<>> ELSE a \o [i \in 1..n |-> 0]

\* The multiples 0 * b, 1 * b, ..., 9 * b.
BigMultiples(b) ==
  LET b2 == BigTwice(b)
      b4 == BigTwice(b2)
      b8 == BigTwice(b4)
      b10 == BigTimesPow10(b, 1)
      b3 == BigSub(b4, b)
  IN <<<<>>, b, b2, b3, b4, BigHalf(b10), BigTwice(b3), BigSub(b8, b), b8, BigSub(b10, b)>>

RECURSIVE BigDivFrom(_, _, _)
\* Long division of a by the number whose multiples are given, for a less than
\* 10^(j + 1) times it: the j + 1 digits of the quotient and the remainder.
BigDivFrom(a, multiples, j) ==
  IF j < 0 THEN [q |-> <<>>, r |-> a]
  ELSE LET fits(c) == ~BigLess(a, BigTimesPow10(multiples[c + 1], j))
           c == CHOOSE c \in 0..9 : fits(c) /\ (c = 9 \/ ~fits(c + 1))
           rest == BigDivFrom(BigSub(a, BigTimesPow10(multiples[c + 1], j)), multiples, j - 1)
       IN [q |-> <<c>> \o rest.q, r |-> rest.r]

\* The quotient and the remainder of a by b, for b > 0.
BigDivMod(a, b) ==
  LET d == BigDivFrom(a, BigMultiples(b), Len(a) - Len(b))
  IN [q |-> BigNorm(d.q), r |-> d.r]

\* The quotient of a by b rounded to the nearest integer, a tie to even.
BigDivRound(a, b) ==
  LET d == BigDivMod(a, b)
      twice == BigTwice(d.r)
  IN IF BigLess(b, twice) \/ (twice = b /\ BigBit(d.q) = 1) THEN BigSucc(d.q) ELSE d.q

\* A double: a significand of 53 bits and a binary exponent of at most 971.
MantissaBits == 53
MaxExponent == 971

\* n >= d * 2^s
AtLeastPow2(n, d, s) ==
  IF s >= 0 THEN ~BigLess(n, BigTimesPow2(d, s)) ELSE ~BigLess(BigTimesPow2(n, -s), d)

\* The b with 2^b <= n / 10^k < 2^(b + 1), for n > 0: it lies between the
\* binary logarithms of 10^p and 10^(p + 1), where p + 1 is the number of
\* digits before the point (log2(10) = 3.3219...).
BinaryExponent(n, k) ==
  LET p == Len(n) - 1 - k
      d == BigTimesPow10(<<1>>, k)
  IN CHOOSE b \in ((p * 33219) \div 10000 - 1)..(((p + 1) * 33219) \div 10000 + 1) :
       AtLeastPow2(n, d, b) /\ ~AtLeastPow2(n, d, b + 1)

\* float of n / 10^k, for n > 0 of no less than a thousandth: the double
\* m * 2^e nearest to it, or infinity when that is past the largest double.
NearestDouble(n, k) ==
  LET e == BinaryExponent(n, k) - (MantissaBits - 1)
      d == BigTimesPow10(<<1>>, k)
      m == IF e >= 0 THEN BigDivRound(n, BigTimesPow2(d, e))
           ELSE BigDivRound(BigTimesPow2(n, -e), d)
  IN IF e > MaxExponent \/ (e = MaxExponent /\ m = BigTimesPow2(<<1>>, MantissaBits))
     THEN [inf |-> TRUE]
     ELSE [inf |-> FALSE, m |-> m, e |-> e]

\* The ASCII digits of a natural number, and the number of a string of
\* decimal digits.
BigChars(a) == [i \in 1..Len(a) |-> DigitChar(a[i])]
BigOf(ds) == BigNorm([i \in 1..Len(ds) |-> DigitVal(ds[i])])

\* The most digits a decimal may have to survive the passage through a
\* double, and the digits before the point of a decimal past every double.
ExactDigits == 15
MaxWholeDigits == 310

\* The double float(clean) in hundredths rounded to the nearest integer, a tie
\* to even, as f"{val:.2f}" does: its digits (at least three), or "inf".
\* A decimal of at most two fractional digits and 15 digits to its hundredths
\* comes back as written; one under a thousandth gives 0.00.
FloatHundredths(clean) ==
  LET d == IF Dots(clean) = {} THEN Len(clean) + 1 ELSE CHOOSE i \in Dots(clean) : TRUE
      k == IF Dots(clean) = {} THEN 0 ELSE Len(clean) - d
      n == BigOf(SubSeq(clean, 1, d - 1) \o SubSeq(clean, d + 1, Len(clean)))
      val == NearestDouble(n, k)
      pad(h) == [i \in 1..(3 - Len(h)) |-> "0"] \o BigChars(h)
  IN IF n = <<>> \/ Len(n) - k <= -3 THEN pad(<<>>)
     ELSE IF k <= 2 /\ Len(n) + 2 - k <= ExactDigits THEN pad(BigTimesPow10(n, 2 - k))
     ELSE IF Len(n) - k > MaxWholeDigits \/ val.inf THEN <<"i", "n", "f">>
     ELSE IF val.e >= 0 THEN pad(BigTimesPow2(BigTimesPow10(val.m, 2), val.e))
     ELSE pad(BigDivRound(BigTimesPow10(val.m, 2), BigTimesPow2(<<1>>, -val.e)))

\* f"₹{val:.2f}", from the digits of the value in hundredths.
FormatPrice(h) ==
  IF h = <<"i", "n", "f">> THEN <<"₹">> \o h
  ELSE <<"₹">> \o SubSeq(h, 1, Len(h) - 2) \o <<".">> \o SubSeq(h, Len(h) - 1, Len(h))

\* clean_price(text)
clean_price(text) ==
  IF ~Truthy(text) THEN None_
  ELSE LET clean == Filter(text.v)
       IN IF clean # <<>>
          THEN (IF FloatParses(clean) THEN Str(FormatPrice(FloatHundredths(clean))) ELSE text)
          ELSE None_

\* ----------------------------------------------------------------- strings

\* `sub in s` for two strings.
IsSubstr(sub, s) ==
  \E i \in 0..(Len(s) - Len(sub)) : SubSeq(s, i + 1, i + Len(sub)) = sub

\* s.startswith(pre)
StartsWith(s, pre) == Len(s) >= Len(pre) /\ SubSeq(s, 1, Len(pre)) = pre

\* s.strip()
Strip(s) ==
  LET keep == {i \in 1..Len(s) : s[i] \notin Whitespace}
  IN IF keep = {} THEN <<>>
     ELSE SubSeq(s, CHOOSE i \in keep : \A j \in keep : i <= j,
                    CHOOSE i \in keep : \A j \in keep : i >= j)

RECURSIVE Concat(_, _)
\* The strings seq[1..n] joined with nothing between them.
Concat(seq, n) == IF n = 0 THEN <<>> ELSE Concat(seq, n - 1) \o seq[n]

\* The character class [\d,.] of the fallback pattern.
AmountChar(c) == c \in DecimalDigits \cup {",", "."}

\* The places where  ₹\s?[\d,.]+  can start matching in s: the offset of the
\* first amount character, 1 or (over one whitespace character) 2.
MatchStart(s, i) ==
  IF s[i] # "₹" THEN 0
  ELSE IF i + 1 <= Len(s) /\ AmountChar(s[i + 1]) THEN 1
  ELSE IF i + 2 <= Len(s) /\ s[i + 1] \in Whitespace /\ AmountChar(s[i + 2]) THEN 2
  ELSE 0

\* re.compile(r"₹\s?[\d,.]+").search(s): the leftmost match, its amount run
\* taken greedily; None when nothing matches.  match.group() is the value.
regex_search(s) ==
  LET starts == {i \in 1..Len(s) : MatchStart(s, i) > 0}
  IN IF starts = {} THEN None_
     ELSE LET i == CHOOSE a \in starts : \A b \in starts : a <= b
              f == i + MatchStart(s, i)
              ends == {e \in f..Len(s) : \A k \in f..e : AmountChar(s[k])}
              e == CHOOSE a \in ends : \A b \in ends : a >= b
          IN Str(SubSeq(s, i, e))

\* str(x) for a string, an integer (the JSON numbers drawn are integers), None
\* and a missing cell.
str(x) ==
  CASE x.t = "str" -> x
    [] x.t = "int" -> Str(DigitsOf(x.n))
    [] x.t = "None" -> Str(<<"N", "o", "n", "e">>)
    [] x.t = "float" -> Str(<<"n", "a", "n">>)

\* ---------------------------------------------------------------- document
(***************************************************************************)
(* A parsed page (the soup) is a record                                    *)
(*   title    the text of the <title> element,                             *)
(*   scripts  the <script type="application/ld+json"> elements in order,   *)
(*            each [string |-> None_] (no single text child) or            *)
(*            [string |-> JsonText(outcome)], the outcome of json.loads    *)
(*            on its text being [ok |-> FALSE] (it raises) or              *)
(*            [ok |-> TRUE, val |-> a JSON value],                         *)
(*   metas    the <meta> elements in order, each a record of the           *)
(*            attributes it carries (property, content),                   *)
(*   elems    the body's elements in document order, each                  *)
(*            [name, class (its class tokens), text].                      *)
(***************************************************************************)

JsonText(outcome) == [t |-> "str", loads |-> outcome]
Unparsable == JsonText([ok |-> FALSE])
Json(val) == JsonText([ok |-> TRUE, val |-> val])

\* tag.get(attr): the attribute's value, None when the tag has no such attribute.
TagGet(tag, attr) == IF attr \in DOMAIN tag THEN tag[attr] ELSE None_

\* The outcome of one pass through a loop body of the scan: a value to return,
\* go on to the next element, or an exception raised.
Return(val) == [k |-> "return", val |-> val]
Continue == [k |-> "continue"]
Raise == [k |-> "raise"]

\* A key of the JSON-LD objects as a Python string.
KeyChars(key) ==
  CASE key = "offers" -> <<"o", "f", "f", "e", "r", "s">>
    [] key = "price" -> <<"p", "r", "i", "c", "e">>
    [] key = "lowPrice" -> <<"l", "o", "w", "P", "r", "i", "c", "e">>

\* `key in x`: a dict has the key, a list has an element equal to it, a string
\* contains it; on a number or null it raises TypeError.
InRaises(x) == x.t \notin {"dict", "list", "str"}
In(key, x) ==
  CASE x.t = "dict" -> key \in DOMAIN x.d
    [] x.t = "list" -> \E i \in 1..Len(x.l) : x.l[i].t = "str" /\ x.l[i].v = KeyChars(key)
    [] x.t = "str" -> IsSubstr(KeyChars(key), x.v)

\* x[key] for a string key raises TypeError unless x is a dict.
GetItemRaises(x) == x.t # "dict"

\* The try block of the loop over the JSON-LD scripts, lines 78-86, for one
\* script.
ScriptStep(script) ==
  IF script.string.t = "None" THEN Continue
  ELSE IF ~script.string.loads.ok THEN Raise
  ELSE LET parsed == script.string.loads.val
       IN IF parsed.t = "list" /\ parsed.l = <<>> THEN Raise
          ELSE LET data == IF parsed.t = "list" THEN parsed.l[1] ELSE parsed
               IN IF InRaises(data) THEN Raise
                  ELSE IF ~In("offers", data) THEN Continue
                  ELSE IF GetItemRaises(data) THEN Raise
                  ELSE LET offers == data.d.offers
                       IN IF offers.t = "list" /\ offers.l = <<>> THEN Raise
                          ELSE LET offer == IF offers.t = "list" THEN offers.l[1] ELSE offers
                               IN IF InRaises(offer) THEN Raise
                                  ELSE IF In("price", offer)
                                  THEN (IF GetItemRaises(offer) THEN Raise
                                        ELSE Return(str(offer.d.price)))
                                  ELSE IF In("lowPrice", offer)
                                  THEN (IF GetItemRaises(offer) THEN Raise
                                        ELSE Return(str(offer.d.lowPrice)))
                                  ELSE Continue

PriceProperties == {"og:price:amount", "product:price:amount"}

\* The body of the loop over the meta tags, lines 92-93.
MetaStep(meta) ==
  IF "property" \in DOMAIN meta /\ meta.property \in PriceProperties
  THEN Return(TagGet(meta, "content"))
  ELSE Continue

\* get_smart_price with the try around the whole loop: the first script that
\* raises ends the scan with nothing.
get_smart_price_aborts(soup) ==
  LET stops == {i \in 1..Len(soup.scripts) : ScriptStep(soup.scripts[i]).k # "continue"}
      mHits == {i \in 1..Len(soup.metas) : MetaStep(soup.metas[i]).k = "return"}
  IN IF stops # {}
     THEN LET r == ScriptStep(soup.scripts[CHOOSE i \in stops : \A j \in stops : i <= j])
          IN IF r.k = "return" THEN r.val ELSE None_
     ELSE IF mHits # {}
     THEN MetaStep(soup.metas[CHOOSE i \in mHits : \A j \in mHits : i <= j]).val
     ELSE None_

\* get_smart_price(soup): the value of the first script, then of the first meta
\* tag, whose step returns; a script that raises is passed over (lines 87-88);
\* None when no step returns.
get_smart_price(soup) ==
  LET sHits == {i \in 1..Len(soup.scripts) : ScriptStep(soup.scripts[i]).k = "return"}
      mHits == {i \in 1..Len(soup.metas) : MetaStep(soup.metas[i]).k = "return"}
  IN IF sHits # {}
     THEN ScriptStep(soup.scripts[CHOOSE i \in sHits : \A j \in sHits : i <= j]).val
     ELSE IF mHits # {}
     THEN MetaStep(soup.metas[CHOOSE i \in mHits : \A j \in mHits : i <= j]).val
     ELSE None_

\* A class query matches an element when it is one of the element's class
\* tokens, or (a query of several tokens) the element's whole class value.
ClassMatches(elem, query) ==
  \/ Len(query) = 1 /\ \E i \in 1..Len(elem.class) : elem.class[i] = query[1]
  \/ elem.class = query

\* soup.find(name, {"class": query}): the first such element, or None.
find(soup, name, query) ==
  LET hits == {i \in 1..Len(soup.elems) :
                 soup.elems[i].name = name /\ ClassMatches(soup.elems[i], query)}
  IN IF hits = {} THEN None_
     ELSE soup.elems[CHOOSE i \in hits : \A j \in hits : i <= j]

\* element.get_text() after `if element:`, the element found first or second.
FirstText(soup, name, q1, q2) ==
  LET e1 == find(soup, name, q1)
      element == IF e1 = None_ THEN find(soup, name, q2) ELSE e1
  IN IF element = None_ THEN None_ ELSE Str(element.text)

\* soup.get_text(): the page's text nodes joined, the title's first (the text
\* of a script element is of a string class get_text leaves out).
get_text(soup) ==
  soup.title \o Concat([i \in 1..Len(soup.elems) |-> soup.elems[i].text], Len(soup.elems))

\* The meesho branch, lines 122-126: the first h4, h5, span or div whose
\* stripped text starts with ₹ and is shorter than 10 characters.
MeeshoText(soup) ==
  LET hits == {i \in 1..Len(soup.elems) :
                 /\ soup.elems[i].name \in {"h4", "h5", "span", "div"}
                 /\ StartsWith(Strip(soup.elems[i].text), <<"₹">>)
                 /\ Len(Strip(soup.elems[i].text)) < 10}
  IN IF hits = {} THEN None_
     ELSE Str(Strip(soup.elems[CHOOSE i \in hits : \A j \in hits : i <= j].text))

\* ---------------------------------------------------------------- get_price

HTTP == <<"h", "t", "t", "p">>
NOT_AVAILABLE == Str(<<"N", "o", "t", " ", "A", "v", "a", "i", "l", "a", "b", "l", "e">>)
OUT_OF_STOCK == Str(<<"O", "u", "t", " ", "o", "f", " ", "S", "t", "o", "c", "k", " ", "/", " ", "E", "r", "r", "o", "r">>)
ERROR == Str(<<"E", "r", "r", "o", "r">>)

\* The test without its substring half.
HasHttp_any_str(x) == IsStr(x)

\* isinstance(x, str) and "http" in x
HasHttp(x) == IsStr(x) /\ IsSubstr(HTTP, x.v)

\* The site keywords in the order of the if/elif chain, lines 120-152.
SiteOrder == <<"meesho", "snapdeal", "amazon", "flipkart", "1mg", "moglix", "blinkit">>

SiteChars(site) ==
  CASE site = "meesho" -> <<"m", "e", "e", "s", "h", "o">>
    [] site = "snapdeal" -> <<"s", "n", "a", "p", "d", "e", "a", "l">>
    [] site = "amazon" -> <<"a", "m", "a", "z", "o", "n">>
    [] site = "flipkart" -> <<"f", "l", "i", "p", "k", "a", "r", "t">>
    [] site = "1mg" -> <<"1", "m", "g">>
    [] site = "moglix" -> <<"m", "o", "g", "l", "i", "x">>
    [] site = "blinkit" -> <<"b", "l", "i", "n", "k", "i", "t">>

\* The branch of the chain taken for url: the first keyword url contains;
\* "none" when it contains none.
SiteOf(url) ==
  LET hits == {i \in 1..Len(SiteOrder) : IsSubstr(SiteChars(SiteOrder[i]), url)}
  IN IF hits = {} THEN "none" ELSE SiteOrder[CHOOSE i \in hits : \A j \in hits : i <= j]

\* What the taken branch finds: the text it would assign to price_text, or None
\* when it assigns nothing.
SiteText(soup, url) ==
  LET site == SiteOf(url)
  IN CASE site = "meesho" -> MeeshoText(soup)
       [] site = "snapdeal" -> FirstText(soup, "span", <<"payBlkBig">>, <<"pdp-final-price">>)
       [] site = "amazon" -> FirstText(soup, "span", <<"a-price-whole">>, <<"a-offscreen">>)
       [] site = "flipkart" -> FirstText(soup, "div", <<"Nx9bqj", "CxhGGd">>, <<"_30jeq3">>)
       [] site = "1mg" -> FirstText(soup, "div", <<"Price__price___3NyX9">>,
                                    <<"DrugPriceBox__best-price___32JXw">>)
       [] site = "moglix" -> FirstText(soup, "div", <<"p-dp-price-amount">>,
                                       <<"p-dp-price-amount">>)
       [] site = "blinkit" -> FirstText(soup, "div", <<"ProductVariants__Price-sc-1unev4j-2">>,
                                        <<"ProductVariants__Price-sc-1unev4j-2">>)
       [] site = "none" -> None_

\* The visual selectors run without the `if not price_text` of line 119.
visual_step_overrides(soup, url, price_text) ==
  IF SiteText(soup, url) = None_ THEN price_text ELSE SiteText(soup, url)

\* Lines 119-154: price_text after the visual selectors.
visual_step(soup, url, price_text) ==
  IF Truthy(price_text) THEN price_text
  ELSE IF SiteText(soup, url) = None_ THEN price_text ELSE SiteText(soup, url)

\* Lines 158-163: price_text after the universal fallback.
generic_step(soup, price_text) ==
  IF Truthy(price_text) THEN price_text
  ELSE IF regex_search(get_text(soup)) = None_ THEN price_text
  ELSE regex_search(get_text(soup))

\* Line 165.
finish(price_text) == IF Truthy(price_text) THEN clean_price(price_text) ELSE OUT_OF_STOCK

\* ------------------------------------------------------------------- inputs

MaxBlocks == 2
MaxMetas == 2
MaxElems == 2
MaxRows == 2
MaxCols == 2
MaxCells == 4

SeqsUpTo(S, n) == UNION {[1..k -> S] : k \in 0..n}

\* JSON-LD scripts: unparsable text; an empty array (data[0] raises); no text;
\* an offer with a price; an array-wrapped product whose offers array holds a
\* lowPrice number; an offer with an empty price beside a lowPrice; an offer
\* whose price has no digits; offers that is null ('price' in None raises); an
\* offer whose price is null beside a lowPrice.
ScriptShapes ==
  { [string |-> Unparsable],
    [string |-> Json(List(<<>>))],
    [string |-> None_],
    [string |-> Json(Dict([offers |-> Dict([price |-> Str(<<"5", "0", "0">>)])]))],
    [string |-> Json(List(<<Dict([offers |-> List(<<Dict([lowPrice |-> Num(499)])>>)])>>))],
    [string |-> Json(Dict([offers |-> Dict([price |-> Str(<<>>), lowPrice |-> Str(<<"4", "8", "0">>)])]))],
    [string |-> Json(Dict([offers |-> Dict([price |-> Str(<<"a", "b", "c">>)])]))],
    [string |-> Json(Dict([offers |-> None_]))],
    [string |-> Json(Dict([offers |-> Dict([price |-> None_, lowPrice |-> Str(<<"4", "7", "0">>)])]))] }

\* Meta tags: a price amount; a price property without content; a price amount
\* with two decimal points; a tag that is not a price property.
MetaShapes ==
  { [property |-> "og:price:amount", content |-> Str(<<"4", "5", "0">>)],
    [property |-> "product:price:amount"],
    [property |-> "product:price:amount", content |-> Str(<<"1", ".", "2", ".", "3">>)],
    [name |-> "description", content |-> Str(<<"7", "0", "0">>)] }

\* Body elements: among them a heading whose price stands between a line feed
\* and a tab, and a paragraph whose amount follows a no-break space and lies
\* halfway between two hundredths.
ElemShapes ==
  { [name |-> "span", class |-> <<"a-price-whole">>, text |-> <<"6", "0", "0">>],
    [name |-> "span", class |-> <<"a-offscreen">>, text |-> <<"₹", "6", "5", "0", ".", "0", "0">>],
    [name |-> "div", class |-> <<"Nx9bqj", "CxhGGd">>, text |-> <<"₹", "7", "0", "0">>],
    [name |-> "h4", class |-> <<>>, text |-> <<"\n", " ", "₹", "6", "0", "\t">>],
    [name |-> "span", class |-> <<"payBlkBig">>, text |-> <<>>],
    [name |-> "p", class |-> <<>>, text |-> <<"R", "s", " ", "5", " ", "₹", " ", "1", ",", "2", "9", "9", ".", "1", "2", "5", " ">>],
    [name |-> "span", class |-> <<"a-price-whole">>, text |-> <<"N", "/", "A">>] }

Titles == {<<"R", "o", "b", "o", "t", " ", "C", "h", "e", "c", "k">>, <<"S", "h", "o", "p">>}

Page(title, scripts, metas, elems) ==
  [title |-> title, scripts |-> scripts, metas |-> metas, elems |-> elems]

U_AMAZON == Str(<<"h", "t", "t", "p", ":", "/", "/", "a", "m", "a", "z", "o", "n", ".", "i", "n", "/", "p">>)
U_MEESHO == Str(<<"h", "t", "t", "p", "s", ":", "/", "/", "m", "e", "e", "s", "h", "o", ".", "c", "o", "m", "/", "p">>)
U_SNAPDEAL == Str(<<"h", "t", "t", "p", "s", ":", "/", "/", "s", "n", "a", "p", "d", "e", "a", "l", ".", "c", "o", "m", "/", "a", "m", "a", "z", "o", "n">>)
U_FLIPKART == Str(<<"h", "t", "t", "p", ":", "/", "/", "f", "l", "i", "p", "k", "a", "r", "t", ".", "c", "o", "m", "/", "p">>)
U_OTHER == Str(<<"h", "t", "t", "p", ":", "/", "/", "s", "h", "o", "p", ".", "i", "n", "/", "p">>)
U_NOSCHEME == Str(<<"a", "m", "a", "z", "o", "n", ".", "i", "n", "/", "h", "t", "t", "p">>)
U_PLAIN == Str(<<"w", "w", "w", ".", "a", "m", "a", "z", "o", "n", ".", "i", "n", "/", "p">>)
U_EMPTY == Str(<<>>)

URLs == {U_AMAZON, U_MEESHO, U_SNAPDEAL, U_FLIPKART, U_OTHER, U_NOSCHEME, U_PLAIN, U_EMPTY, NaN}

\* Pages that vary the structured data, over one body element.
StructPages ==
  { Page(<<"S", "h", "o", "p">>, sc, me,
         <<[name |-> "span", class |-> <<"a-price-whole">>, text |-> <<"6", "0", "0">>]>>) :
      sc \in SeqsUpTo(ScriptShapes, MaxBlocks), me \in SeqsUpTo(MetaShapes, MaxMetas) }

\* Pages that vary the title and the body, over a few structured-data blocks.
VisualScripts ==
  { <<>>,
    <<[string |-> Unparsable]>>,
    <<[string |-> Json(Dict([offers |-> Dict([price |-> Str(<<"5", "0", "0">>)])]))]>>,
    <<[string |-> Json(Dict([offers |-> Dict([price |-> Str(<<"a", "b", "c">>)])]))]>> }

VisualPages ==
  { Page(t, sc, <<>>, el) :
      t \in Titles, sc \in VisualScripts, el \in SeqsUpTo(ElemShapes, MaxElems) }

\* The calls of get_price explored on their own: a url and the page it serves.
Calls ==
  (URLs \X VisualPages) \cup ({U_AMAZON, U_OTHER} \X StructPages)

\* The pages a site serves during a catalog run.
MainPages ==
  { Page(<<"S", "h", "o", "p">>, <<[string |-> Json(Dict([offers |-> Dict([price |-> Str(<<"5", "0", "0">>)])]))]>>,
         <<>>, <<>>),
    Page(<<"R", "o", "b", "o", "t", " ", "C", "h", "e", "c", "k">>, <<>>, <<>>, <<>>) }

\* What a retailer cell of the workbook may hold.
CellValues == {NaN, U_EMPTY, U_PLAIN, U_AMAZON}

FIXED_COLUMNS == 3

\* df.columns: the three fixed columns and c retailer columns.
Headers(c) ==
  <<Str(<<"B">>), Str(<<"N">>), Str(<<"P">>)>> \o [k \in 1..c |-> Str(<<"R", DigitChar(k)>>)]

\* A row: brand and name, a missing pack size, and the retailer cells.
Row(cells) == <<Str(<<"b">>), Str(<<"n">>), NaN>> \o cells

\* The workbooks read: up to MaxRows products by up to MaxCols retailers, of
\* at most MaxCells retailer cells in all.
Catalogs ==
  UNION { { [headers |-> Headers(c), rows |-> [i \in 1..r |-> Row(cells[i])]] :
              cells \in [1..r -> [1..c -> CellValues]] } :
          <<r, c>> \in {rc \in (0..MaxRows) \X (0..MaxCols) : rc[1] * rc[2] <= MaxCells} }

\* What the sheet holds before the run.
PriorSheet == <<<<Str(<<"o", "l", "d">>)>>>>

\* -------------------------------------------------------------------- state

VARIABLES
  pc,          \* where main, or the call of get_price, stands
  caller,      \* "main", or "direct" for a call of get_price on its own
  df,          \* the workbook read (None_ before it is read)
  index,       \* the row of the loop of line 185 (1-based)
  col_idx,     \* the column of the loop of line 192 (1-based)
  row_data,    \* the row being built
  final_data,  \* the grid built so far
  sheet,       \* the rows the sheet holds
  fetched,     \* the urls driver.get was called with, in order
  web,         \* the pages the site may serve
  url,         \* get_price's argument
  soup,        \* get_price's parsed page
  price_text,  \* get_price's candidate
  ran,         \* the strategies get_price has run
  ret          \* get_price's return value

vars == <<pc, caller, df, index, col_idx, row_data, final_data, sheet, fetched, web,
          url, soup, price_text, ran, ret>>

mainVars == <<df, index, col_idx, row_data, final_data, sheet>>
frameVars == <<url, soup, price_text, ran, ret>>

NoFrame ==
  /\ url = None_ /\ soup = None_ /\ price_text = None_ /\ ran = {} /\ ret = None_

\* main, before it reads the workbook.
Init ==
  /\ pc = "start" /\ caller = "main"
  /\ df = None_ /\ index = 0 /\ col_idx = 0
  /\ row_data = <<>> /\ final_data = <<>> /\ sheet = PriorSheet
  /\ fetched = <<>> /\ web = MainPages
  /\ NoFrame

\* A call get_price(driver, url) on its own.
InitResolve ==
  /\ pc = "gp_enter" /\ caller = "direct"
  /\ df = None_ /\ index = 0 /\ col_idx = 0
  /\ row_data = <<>> /\ final_data = <<>> /\ sheet = PriorSheet
  /\ fetched = <<>>
  /\ \E c \in Calls : url = c[1] /\ web = {c[2]}
  /\ soup = None_ /\ price_text = None_ /\ ran = {} /\ ret = None_

\* ---------------------------------------------------------------- get_price

\* Lines 99-100.
GpEnter ==
  /\ pc = "gp_enter"
  /\ IF ~HasHttp(url)
     THEN ret' = NOT_AVAILABLE /\ pc' = "gp_return"
     ELSE ret' = ret /\ pc' = "gp_get"
  /\ UNCHANGED <<caller, mainVars, fetched, web, url, soup, price_text, ran>>

\* Lines 103-113: the page loads and is parsed.
GpGet ==
  /\ pc = "gp_get"
  /\ fetched' = Append(fetched, url)
  /\ \E page \in web : soup' = page
  /\ price_text' = None_
  /\ pc' = "gp_smart"
  /\ UNCHANGED <<caller, mainVars, web, url, ran, ret>>

\* The exception leaves get_price and reaches main's handler, lines 231-234.
GpGetRaises_propagates ==
  /\ pc = "gp_get"
  /\ fetched' = Append(fetched, url)
  /\ pc' = "fatal"
  /\ UNCHANGED <<caller, mainVars, web, url, soup, price_text, ran, ret>>

\* Lines 103-112 raise (the load fails or times out); lines 167-169 return.
GpGetRaises ==
  /\ pc = "gp_get"
  /\ fetched' = Append(fetched, url)
  /\ ret' = ERROR
  /\ pc' = "gp_return"
  /\ UNCHANGED <<caller, mainVars, web, url, soup, price_text, ran>>

\* Line 116.
GpSmart ==
  /\ pc = "gp_smart"
  /\ price_text' = get_smart_price(soup)
  /\ ran' = ran \cup {"smart"}
  /\ pc' = "gp_visual"
  /\ UNCHANGED <<caller, mainVars, fetched, web, url, soup, ret>>

\* Lines 119-154.
GpVisual ==
  /\ pc = "gp_visual"
  /\ price_text' = visual_step(soup, url.v, price_text)
  /\ ran' = IF Truthy(price_text) THEN ran ELSE ran \cup {"visual"}
  /\ pc' = "gp_generic"
  /\ UNCHANGED <<caller, mainVars, fetched, web, url, soup, ret>>

\* Lines 158-165.
GpGeneric ==
  /\ pc = "gp_generic"
  /\ price_text' = generic_step(soup, price_text)
  /\ ran' = IF Truthy(price_text) THEN ran ELSE ran \cup {"generic"}
  /\ ret' = finish(generic_step(soup, price_text))
  /\ pc' = "gp_return"
  /\ UNCHANGED <<caller, mainVars, fetched, web, url, soup>>

\* The call made on its own has returned.
GpDone ==
  /\ pc = "gp_return" /\ caller = "direct"
  /\ pc' = "returned"
  /\ UNCHANGED <<caller, mainVars, fetched, web, frameVars>>

\* --------------------------------------------------------------------- main

NRows == Len(df.rows)
NCols == Len(df.headers)

\* Lines 177-181.
ReadExcel ==
  /\ pc = "start"
  /\ \E d \in Catalogs : df' = d /\ final_data' = <<d.headers>>
  /\ index' = 1
  /\ pc' = "row"
  /\ UNCHANGED <<caller, col_idx, row_data, sheet, fetched, web, frameVars>>

\* Line 177 raises (no workbook); lines 231-234.
ReadExcelRaises ==
  /\ pc = "start"
  /\ pc' = "fatal"
  /\ UNCHANGED <<caller, mainVars, fetched, web, frameVars>>

\* Lines 185-190: the next product row begins.
RowStart ==
  /\ pc = "row" /\ index <= NRows
  /\ row_data' = <<str(df.rows[index][1]), str(df.rows[index][2]), str(df.rows[index][3])>>
  /\ col_idx' = FIXED_COLUMNS + 1
  /\ pc' = "cell"
  /\ UNCHANGED <<caller, df, index, final_data, sheet, fetched, web, frameVars>>

\* Lines 193-198: a cell holding a link; get_price is called.
CellScrape ==
  /\ pc = "cell" /\ col_idx <= NCols
  /\ HasHttp(df.rows[index][col_idx])
  /\ url' = df.rows[index][col_idx]
  /\ pc' = "gp_enter"
  /\ UNCHANGED <<caller, mainVars, fetched, web, soup, price_text, ran, ret>>

\* Lines 198-200: get_price has returned; its value goes into the row.
CellPrice ==
  /\ pc = "gp_return" /\ caller = "main"
  /\ row_data' = Append(row_data, ret)
  /\ col_idx' = col_idx + 1
  /\ url' = None_ /\ soup' = None_ /\ price_text' = None_ /\ ran' = {} /\ ret' = None_
  /\ pc' = "cell"
  /\ UNCHANGED <<caller, df, index, final_data, sheet, fetched, web>>

\* The else branch appends nothing.
CellSkip_no_append ==
  /\ pc = "cell" /\ col_idx <= NCols
  /\ ~HasHttp(df.rows[index][col_idx])
  /\ col_idx' = col_idx + 1
  /\ UNCHANGED <<pc, caller, df, index, row_data, final_data, sheet, fetched, web, frameVars>>

\* Lines 201-202: any other cell.
CellSkip ==
  /\ pc = "cell" /\ col_idx <= NCols
  /\ ~HasHttp(df.rows[index][col_idx])
  /\ row_data' = Append(row_data, NOT_AVAILABLE)
  /\ col_idx' = col_idx + 1
  /\ UNCHANGED <<pc, caller, df, index, final_data, sheet, fetched, web, frameVars>>

\* Line 204.
RowEnd ==
  /\ pc = "cell" /\ col_idx > NCols
  /\ final_data' = Append(final_data, row_data)
  /\ index' = index + 1
  /\ pc' = "row"
  /\ UNCHANGED <<caller, df, col_idx, row_data, sheet, fetched, web, frameVars>>

\* Lines 206-216: the credentials are read, the client is authorized and the
\* sheet opened.
Authorize ==
  /\ pc = "row" /\ index > NRows
  /\ pc' = "clear"
  /\ UNCHANGED <<caller, mainVars, fetched, web, frameVars>>

\* Line 218.
SheetClear ==
  /\ pc = "clear"
  /\ sheet' = <<>>
  /\ pc' = "update"
  /\ UNCHANGED <<caller, df, index, col_idx, row_data, final_data, fetched, web, frameVars>>

\* Line 219.
SheetUpdate ==
  /\ pc = "update"
  /\ sheet' = final_data
  /\ pc' = "format_header"
  /\ UNCHANGED <<caller, df, index, col_idx, row_data, final_data, fetched, web, frameVars>>

\* Lines 221-224.
SheetFormatHeader ==
  /\ pc = "format_header"
  /\ pc' = "format_body"
  /\ UNCHANGED <<caller, mainVars, fetched, web, frameVars>>

\* Lines 225-229 and 234.
SheetFormatBody ==
  /\ pc = "format_body"
  /\ pc' = "done"
  /\ UNCHANGED <<caller, mainVars, fetched, web, frameVars>>

\* One of the calls of lines 209-227 raises (the credentials, the opening of
\* the sheet, clear, update or a format): lines 231-234.  The sheet stays as
\* the calls before it left it.
UploadRaises ==
  /\ \/ pc = "row" /\ index > NRows
     \/ pc \in {"clear", "update", "format_header", "format_body"}
  /\ pc' = "fatal"
  /\ UNCHANGED <<caller, mainVars, fetched, web, frameVars>>

Next ==
  \/ ReadExcel \/ ReadExcelRaises \/ RowStart \/ CellScrape \/ CellPrice \/ CellSkip
  \/ RowEnd \/ Authorize \/ SheetClear \/ SheetUpdate \/ SheetFormatHeader \/ SheetFormatBody
  \/ UploadRaises
  \/ GpEnter \/ GpGet \/ GpGetRaises \/ GpSmart \/ GpVisual \/ GpGeneric

NextResolve ==
  \/ GpEnter \/ GpGet \/ GpGetRaises \/ GpSmart \/ GpVisual \/ GpGeneric \/ GpDone

\* A catalog run.
Spec == Init /\ [][Next]_vars

\* Calls of get_price, one per url and page.
SpecResolve == InitResolve /\ [][NextResolve]_vars

\* ------------------------------------------------------------------- claims

\* A value of the form ₹<digits>.<two digits>.
IsOkPrice(r) ==
  /\ IsStr(r) /\ Len(r.v) >= 5 /\ r.v[1] = "₹" /\ r.v[Len(r.v) - 2] = "."
  /\ \A i \in 2..Len(r.v) : i # Len(r.v) - 2 => r.v[i] \in AsciiDigits

\* A candidate the normaliser turns into a price.
Normalizable(c) == Truthy(c) /\ IsOkPrice(clean_price(c))

\* The call has loaded a page and returned.
Resolved == pc = "returned" /\ soup # None_

SmartCand == get_smart_price(soup)
SiteCand == SiteText(soup, url.v)
GenericCand == regex_search(get_text(soup))

\* Outcomes the documentation names and the code never produces.
BLOCKED == Str(<<"B", "l", "o", "c", "k", "e", "d">>)
PARSE_ERROR == Str(<<"P", "a", "r", "s", "e", " ", "E", "r", "r", "o", "r">>)
FailureReasons == {NOT_AVAILABLE, OUT_OF_STOCK, BLOCKED, PARSE_ERROR, ERROR}

\* The title carries a robot-check phrase.
BlockedTitle(page) == IsSubstr(<<"R", "o", "b", "o", "t", " ", "C", "h", "e", "c", "k">>, page.title)

\* A url that starts with a network scheme.
HasScheme(u) ==
  IsStr(u) /\ (StartsWith(u.v, <<"h", "t", "t", "p", ":", "/", "/">>) \/ StartsWith(u.v, <<"h", "t", "t", "p", "s", ":", "/", "/">>))

\* A script block whose inspection raises.
Malformed(script) == ScriptStep(script).k = "raise"
NotMalformed(script) == ~Malformed(script)
WithoutMalformed(page) == [page EXCEPT !.scripts = SelectSeq(page.scripts, NotMalformed)]
HasMalformed(page) == \E i \in 1..Len(page.scripts) : Malformed(page.scripts[i])

\* The value each block, then each price meta tag, holds (None_ for none), in
\* scan order, and the first non-empty one.
ScanValues(page) ==
  [i \in 1..Len(page.scripts) |->
     IF ScriptStep(page.scripts[i]).k = "return" THEN ScriptStep(page.scripts[i]).val ELSE None_]
  \o [i \in 1..Len(page.metas) |->
     IF MetaStep(page.metas[i]).k = "return" THEN MetaStep(page.metas[i]).val ELSE None_]
FirstNonEmpty(page) ==
  LET vals == ScanValues(page)
      hits == {i \in 1..Len(vals) : Truthy(vals[i])}
  IN IF hits = {} THEN None_ ELSE vals[CHOOSE i \in hits : \A j \in hits : i <= j]

\* C1: when the structured-data candidate is non-empty and not normalizable, it
\* is discarded and the later strategies still run: the result is the price of
\* the site rule if that is normalizable, else of the generic pattern if that is.
C1_DiscardedCandidateFallsThrough ==
  (Resolved /\ Truthy(SmartCand) /\ ~Normalizable(SmartCand)) =>
     /\ Normalizable(SiteCand) => ret = clean_price(SiteCand)
     /\ (~Normalizable(SiteCand) /\ Normalizable(GenericCand)) => ret = clean_price(GenericCand)

\* No strategy yields a normalizable price from the loaded page.
NoNormalizable ==
  ~Normalizable(SmartCand) /\ ~Normalizable(SiteCand) /\ ~Normalizable(GenericCand)

\* C2: a loaded page with no normalizable price resolves to Blocked when its
\* title has a robot-check phrase, and to OutOfStock only when it has not.
\* get_price never reads the title (line 165).
C2_BlockedIsDistinguished ==
  (Resolved /\ NoNormalizable) =>
     /\ BlockedTitle(soup) => ret = BLOCKED
     /\ ret = OUT_OF_STOCK => ~BlockedTitle(soup)

\* C3: a normalizable structured-data price is the result whatever the later
\* strategies would yield, and only the structured strategy has run; with no
\* structured value, a normalizable site-rule price is the result and the
\* generic pattern is not consulted; the generic pattern runs only after both
\* earlier strategies gave nothing.
C3_StrategyPriority ==
  /\ (Resolved /\ Normalizable(SmartCand)) => (ret = clean_price(SmartCand) /\ ran = {"smart"})
  /\ (Resolved /\ ~Truthy(SmartCand) /\ Normalizable(SiteCand)) =>
        (ret = clean_price(SiteCand) /\ "generic" \notin ran)
  /\ "generic" \in ran =>
        (~Truthy(SmartCand) /\ ~Truthy(SiteCand) /\ {"smart", "visual"} \subseteq ran)

C3_Witness ==
  /\ Resolved
  /\ SmartCand = Str(<<"5", "0", "0">>) /\ SiteCand = Str(<<"6", "0", "0">>)
  /\ ret = Str(<<"₹", "5", "0", "0", ".", "0", "0">>)

\* C4: a block that fails to parse, or raises while inspected, is passed over:
\* the extractor's value is what the page without such blocks yields (later
\* blocks and the meta tags are still examined); and when that is nothing and
\* the site rule yields a normalizable price, the call returns that price; a
\* loaded page never resolves to the error outcome.
C4_MalformedBlockIsSkipped ==
  /\ pc = "gp_visual" => price_text = get_smart_price(WithoutMalformed(soup))
  /\ (Resolved /\ HasMalformed(soup) /\ ~Truthy(get_smart_price(WithoutMalformed(soup)))
        /\ Normalizable(SiteCand)) => ret = clean_price(SiteCand)
  /\ Resolved => ret # ERROR

C4_Witness ==
  /\ Resolved /\ HasMalformed(soup) /\ Malformed(soup.scripts[1])
  /\ ~Truthy(SmartCand) /\ Normalizable(SiteCand)
  /\ ret = clean_price(SiteCand)

\* C5: for a url that does not start with a network scheme the call returns
\* NotAvailable at once: no fetch is made and no strategy is run.
C5_NoSchemeIsNotAvailable ==
  (caller = "direct" /\ ~HasScheme(url)) =>
     /\ fetched = <<>>
     /\ ran = {}
     /\ pc = "returned" => ret = NOT_AVAILABLE

RECURSIVE RetailerCells(_, _)
\* The retailer cells of the first n rows, in catalog order.
RetailerCells(d, n) ==
  IF n = 0 THEN <<>>
  ELSE RetailerCells(d, n - 1) \o SubSeq(d.rows[n], FIXED_COLUMNS + 1, Len(d.headers))

NonEmptyCell(c) == IsStr(c) /\ c.v # <<>>
LinkCell(c) == IsStr(c) /\ IsSubstr(HTTP, c.v)

\* sheet.update has been carried out: the sheet holds the grid of the run,
\* whether the run then ends in success or in the handler.
SheetWritten == sheet # PriorSheet /\ sheet # <<>>

\* Every empty retailer cell is NotAvailable at its place in the sheet.
EmptyCellsNotAvailable ==
  /\ \E i \in 1..Len(df.rows) : \E j \in (FIXED_COLUMNS + 1)..Len(df.headers) :
       ~NonEmptyCell(df.rows[i][j]) /\ sheet[i + 1][j] = NOT_AVAILABLE

\* The sheet holds a row per product, each cell at its catalog place: a link
\* cell holds what its call returned, any other cell NotAvailable.
SheetComplete ==
  /\ Len(sheet) = 1 + Len(df.rows)
  /\ \A i \in 1..Len(df.rows) :
       /\ Len(sheet[i + 1]) = Len(df.headers)
       /\ \A j \in (FIXED_COLUMNS + 1)..Len(df.headers) :
            LinkCell(df.rows[i][j]) <=> sheet[i + 1][j] # NOT_AVAILABLE

\* C7: an exception while a cell's page is fetched makes get_price return the
\* error outcome; it never reaches main's handler (the run ends fatally only
\* where the workbook is read or the sheet is written); the outcome is appended
\* to the row being built, the rows before it untouched; and the run goes on to
\* the next cell, so that the grid handed to sheet.update, and the sheet once
\* written, is complete.
C7_FetchErrorIsIsolated ==
  /\ [](pc = "fatal" => (df = None_ \/ index > Len(df.rows)))
  /\ [](pc = "update" => final_data # <<>> /\ Len(final_data) = 1 + Len(df.rows))
  /\ [](SheetWritten => (sheet = final_data /\ SheetComplete))
  /\ [][(pc = "gp_get" /\ pc' = "gp_return") =>
          (ret' = ERROR /\ UNCHANGED <<row_data, final_data, index, col_idx>>)]_vars
  /\ [][(pc = "gp_return" /\ caller = "main" /\ ret = ERROR) =>
          (/\ pc' = "cell"
           /\ row_data' = Append(row_data, ERROR)
           /\ col_idx' = col_idx + 1
           /\ UNCHANGED <<final_data, index>>)]_vars

C7_Witness ==
  /\ pc = "done" /\ Len(sheet) = 3 /\ Len(sheet[2]) = FIXED_COLUMNS + 2
  /\ sheet[2][FIXED_COLUMNS + 1] = ERROR
  /\ IsOkPrice(sheet[2][FIXED_COLUMNS + 2])
  /\ IsOkPrice(sheet[3][FIXED_COLUMNS + 1])

\* C8: every value get_price returns is a formatted price or one of the five
\* failure reasons: never null, never the raw candidate.
C8_ResultIsTagged ==
  pc = "returned" => (IsOkPrice(ret) \/ ret \in FailureReasons)

RetailerCount == Len(df.headers) - FIXED_COLUMNS

\* C9 as stated: the sheet written has 1 + products rows, each of
\* 3 + retailers + 1 cells.
C9_GridHasTimestampColumn ==
  SheetWritten =>
     /\ Len(sheet) = 1 + Len(df.rows)
     /\ \A r \in 1..Len(sheet) : Len(sheet[r]) = FIXED_COLUMNS + RetailerCount + 1

\* C9 amended: the sheet written has 1 + products rows, each of exactly
\* 3 + retailers cells; there is no timestamp column.
C9_GridShape ==
  SheetWritten =>
     /\ Len(sheet) = 1 + Len(df.rows)
     /\ \A r \in 1..Len(sheet) : Len(sheet[r]) = FIXED_COLUMNS + RetailerCount

C9_Witness ==
  /\ pc = "done" /\ Len(sheet) = 3 /\ RetailerCount = 2
  /\ Len(sheet[3]) = FIXED_COLUMNS + 2

\* C10: the extractor returns the first non-empty value among the blocks'
\* prices and then the price meta tags' contents; an empty or missing value
\* earlier never stops the scan.
C10_FirstNonEmptyValue ==
  pc = "gp_visual" =>
     IF Truthy(FirstNonEmpty(soup)) THEN price_text = FirstNonEmpty(soup)
     ELSE ~Truthy(price_text)

=============================================================================
